---- MODULE Spec2Model ----
(***************************************************************************)
(* Trend blogger (src/main.py): the daily run, its dedup ledger and the    *)
(* keyword pipeline.  Strings are sequences of Unicode code points, so     *)
(* that substring tests, sorting, whitespace handling and the ledger's     *)
(* line format are computed the way the Python code computes them.         *)
(***************************************************************************)
EXTENDS Integers, Sequences, FiniteSets, TLC

(***************************************************************************)
(* Values fixed in the source                                              *)
(***************************************************************************)
\* src/main.py:40-44
FILTER_KEYWORDS ==
  << <<51088, 49332>>,  \* "자살"
     <<49332, 54644>>,  \* "살해"
     <<49457, 54253, 54665>>,  \* "성폭행"
     <<48520, 48277>>,  \* "불법"
     <<47560, 50557>>,  \* "마약"
     <<48276, 51396>>,  \* "범죄"
     <<49457, 51064>>,  \* "성인"
     <<46020, 48149>>,  \* "도박"
     <<51020, 46976>>,  \* "음란"
     <<54252, 47476, 45432>>,  \* "포르노"
     <<49457, 47588, 47588>>,  \* "성매매"
     <<51452, 49885, 32, 47532, 46377, 48169>>,  \* "주식 리딩방"
     <<53804, 51088, 32, 49324, 44592>>,  \* "투자 사기"
     <<49440, 47932, 32, 49324, 44592>> >>  \* "선물 사기"

\* src/main.py:46-51
ANNUAL_KEYWORDS ==
  << <<44148, 44053, 48372, 54744>>,  \* "건강보험"
     <<50672, 47568, 51221, 49328>>,  \* "연말정산"
     <<51333, 54633, 49548, 46301, 49464>>,  \* "종합소득세"
     <<44397, 48124, 50672, 44552>>,  \* "국민연금"
     <<51032, 47308, 48372, 54744>>,  \* "의료보험"
     <<44540, 47196, 49548, 46301, 49464>>,  \* "근로소득세"
     <<53748, 51649, 44552>>,  \* "퇴직금"
     <<49548, 46301, 44277, 51228>>,  \* "소득공제"
     <<49464, 44552>>,  \* "세금"
     <<44277, 51228>>,  \* "공제"
     <<49464, 50529, 44277, 51228>>,  \* "세액공제"
     <<51648, 44553, 51068>>,  \* "지급일"
     <<45225, 48512, 51068>> >>  \* "납부일"

STOCK_TERM == <<44288, 47144, 51452>>  \* "관련주"
QUIZ_TERM == <<53300, 51592>>  \* "퀴즈"

\* src/main.py:37  POSTED_LOG_FILE = "posted_log.txt", as its path components
\* (a relative path with a single component: the file name, no directory).
POSTED_LOG_FILE == << <<112, 111, 115, 116, 101, 100, 95, 108, 111, 103, 46, 116, 120, 116>> >>

\* src/main.py:245  max_retries = 3
max_retries == 3

(***************************************************************************)
(* Python string operations, on sequences of code points                   *)
(***************************************************************************)
\* str.isspace() for one character (the ASCII whitespace characters)
IsSpace(c) == c \in {9, 10, 11, 12, 13, 32}

\* \d of the re module, for the ASCII digits
IsDigit(c) == c >= 48 /\ c <= 57

RECURSIVE lstrip(_)
lstrip(s) == IF s # <<>> /\ IsSpace(Head(s)) THEN lstrip(Tail(s)) ELSE s

RECURSIVE rstrip(_)
rstrip(s) ==
  IF s # <<>> /\ IsSpace(s[Len(s)]) THEN rstrip(SubSeq(s, 1, Len(s) - 1)) ELSE s

\* str.strip()
strip(s) == rstrip(lstrip(s))

\* str.startswith(p)
startswith(s, p) == Len(p) <= Len(s) /\ SubSeq(s, 1, Len(p)) = p

\* "t in s" for strings
contains(s, t) == \E i \in 0..(Len(s) - Len(t)) : SubSeq(s, i + 1, i + Len(t)) = t

\* first index (1-based) at which t occurs in s at or after position from, 0 if none
find_from(s, t, from) ==
  LET hits == {i \in from..(Len(s) - Len(t) + 1) : SubSeq(s, i, i + Len(t) - 1) = t}
  IN  IF hits = {} THEN 0 ELSE CHOOSE i \in hits : \A j \in hits : i <= j

RECURSIVE collapse(_)
collapse(s) ==
  IF s = <<>> THEN <<>>
  ELSE IF IsSpace(Head(s)) THEN <<32>> \o collapse(lstrip(s))
  ELSE <<Head(s)>> \o collapse(Tail(s))

\* ' '.join(s.split())
join_split(s) == collapse(strip(s))

\* s.replace(" ", "")
remove_spaces(s) == SelectSeq(s, LAMBDA c : c # 32)

\* str.lower() (ASCII letters; Hangul has no case)
lower(s) == [i \in 1..Len(s) |-> IF s[i] >= 65 /\ s[i] <= 90 THEN s[i] + 32 ELSE s[i]]

\* s.replace(old, new): every non-overlapping occurrence, left to right
RECURSIVE replace(_, _, _)
replace(s, old, new) ==
  LET i == find_from(s, old, 1)
  IN  IF old = <<>> \/ i = 0 THEN s
      ELSE SubSeq(s, 1, i - 1) \o new \o replace(SubSeq(s, i + Len(old), Len(s)), old, new)

\* str(n) for n >= 0
RECURSIVE str_int(_)
str_int(n) == IF n < 10 THEN <<48 + n>> ELSE str_int(n \div 10) \o <<48 + (n % 10)>>

\* "%02d" % n
pad2(n) == IF n < 10 THEN <<48>> \o str_int(n) ELSE str_int(n)

\* strict lexicographic order of two strings by code point (list.sort on str)
RECURSIVE str_less(_, _)
str_less(a, b) ==
  IF b = <<>> THEN FALSE
  ELSE IF a = <<>> THEN TRUE
  ELSE IF Head(a) # Head(b) THEN Head(a) < Head(b)
  ELSE str_less(Tail(a), Tail(b))

\* sorted(S) for a finite set of strings
RECURSIVE sorted(_)
sorted(S) ==
  IF S = {} THEN <<>>
  ELSE LET m == CHOOSE x \in S : \A y \in S \ {x} : str_less(x, y)
       IN  <<m>> \o sorted(S \ {m})

\* the elements of a sequence
Range(q) == {q[i] : i \in 1..Len(q)}

(***************************************************************************)
(* Dates (KST calendar dates of datetime.now(KST))                         *)
(***************************************************************************)
\* strftime("%Y-%m-%d"), src/main.py:437
today_kst_str(d) == str_int(d.y) \o <<45>> \o pad2(d.m) \o <<45>> \o pad2(d.d)

\* today_kst_str[:4], src/main.py:438
current_year(d) == SubSeq(today_kst_str(d), 1, 4)

\* f"{today.month}월 {today.day}일", src/main.py:278
today_date_str_md(d) == str_int(d.m) \o <<50900, 32>> \o str_int(d.d) \o <<51068>>

(***************************************************************************)
(* Helper functions of src/main.py                                         *)
(***************************************************************************)
\* is_annual_keyword, src/main.py:146-151
is_annual_keyword(keyword) ==
  \E t \in 1..Len(ANNUAL_KEYWORDS) : contains(keyword, ANNUAL_KEYWORDS[t])

\* is_related_stock_keyword, src/main.py:153-155
is_related_stock_keyword(keyword) == contains(keyword, STOCK_TERM)

\* the three membership tests of is_keyword_already_posted against one set:
\* as-is, ' '.join(keyword.split()), and with the spaces removed on both sides
posted_in(keyword, posted_set) ==
  \/ keyword \in posted_set
  \/ join_split(keyword) \in posted_set
  \/ \E p \in posted_set : remove_spaces(keyword) = remove_spaces(p)

\* is_keyword_already_posted(keyword, posted_today_set, annual_posted_set) with
\* annual_posted_set a set (not None), src/main.py:157-199
is_keyword_already_posted(keyword, posted_today_set, annual_posted_set) ==
  IF is_annual_keyword(keyword)
  THEN posted_in(keyword, annual_posted_set)
  ELSE posted_in(keyword, posted_today_set)

\* line.split(',', 1)[1].strip(): the text after the first comma; the line has one
after_comma(line) == strip(SubSeq(line, find_from(line, <<44>>, 1) + 1, Len(line)))

\* the keywords one ledger line adds to a loaded set: the keyword and its
\* whitespace-normalized form; a line without a comma is skipped (IndexError)
line_keywords(line) ==
  IF contains(line, <<44>>)
  THEN {after_comma(line), join_split(after_comma(line))}
  ELSE {}

\* load_posted_today(log_file, today_str), src/main.py:55-98; a missing file
\* gives the empty set
load_posted_today(exists, lines, today_str) ==
  IF ~exists THEN {}
  ELSE UNION {line_keywords(strip(lines[n])) :
                n \in {m \in 1..Len(lines) : startswith(strip(lines[m]), today_str)}}

\* load_annual_keywords_posted_this_year(log_file, current_year), src/main.py:100-144
load_annual_keywords_posted_this_year(exists, lines, year) ==
  IF ~exists THEN {}
  ELSE UNION {IF is_annual_keyword(after_comma(strip(lines[n])))
              THEN line_keywords(strip(lines[n])) ELSE {} :
                n \in {m \in 1..Len(lines) :
                         /\ startswith(strip(lines[m]), year)
                         /\ contains(strip(lines[m]), <<44>>)}}

\* date_pattern = ^\d{4}-\d{2}-\d{2}, of clean_log_file, src/main.py:218
date_pattern_match(line) ==
  /\ Len(line) >= 11
  /\ \A i \in {1, 2, 3, 4, 6, 7, 9, 10} : IsDigit(line[i])
  /\ line[5] = 45 /\ line[8] = 45 /\ line[11] = 44

\* the lines clean_log_file keeps, src/main.py:223-227
valid_lines(lines) ==
  LET stripped == [n \in 1..Len(lines) |-> strip(lines[n])]
  IN  SelectSeq(stripped, LAMBDA l : date_pattern_match(l) /\ contains(l, <<44>>))

\* clean_log_file(log_file), src/main.py:201-241, as the ledger contents it
\* leaves for an existing file (a missing file is left alone, line 208).
\* read_upto: how many lines the read loop got through before an error ended
\* it (all of them when no error); write_fails: the rewrite raised, and the
\* backup of the original is copied back.
clean_log_file(lines, read_upto, write_fails) ==
  IF write_fails THEN lines ELSE valid_lines(SubSeq(lines, 1, read_upto))

\* the line log_posted_keyword writes, src/main.py:260 (without its newline)
ledger_line(today_str, keyword) == today_str \o <<44>> \o keyword

\* os.path.dirname(log_file), src/main.py:251
os_path_dirname(path) == SubSeq(path, 1, Len(path) - 1)

\* os.makedirs(name, exist_ok=True) raises FileNotFoundError for the empty path
makedirs_raises(dir) == dir = <<>>

(***************************************************************************)
(* Keyword pipeline                                                        *)
(***************************************************************************)
\* character of s at position j, 0 past the end
char_at(s, j) == IF j >= 1 /\ j <= Len(s) THEN s[j] ELSE 0

\* number of whitespace characters of s starting at position j
RECURSIVE space_run(_, _)
space_run(s, j) == IF IsSpace(char_at(s, j)) THEN 1 + space_run(s, j + 1) ELSE 0

\* one or two digits followed by the character c, at position j: the number
\* of digits taken (two preferred, as the greedy \d{1,2} does), 0 if none
digits_then(s, j, c) ==
  IF IsDigit(char_at(s, j)) /\ IsDigit(char_at(s, j + 1)) /\ char_at(s, j + 2) = c THEN 2
  ELSE IF IsDigit(char_at(s, j)) /\ char_at(s, j + 1) = c THEN 1
  ELSE 0

\* DATE_REGEX = (\d{1,2})월\s*(\d{1,2})일, src/main.py:38: the length of its
\* match starting at position i of s, 0 when it does not match there
date_match_len(s, i) ==
  LET d1 == digits_then(s, i, 50900)
      k  == i + d1 + 1 + space_run(s, i + d1 + 1)
      d2 == digits_then(s, k, 51068)
  IN  IF d1 = 0 \/ d2 = 0 THEN 0 ELSE (k + d2 + 1) - i

\* DATE_REGEX.search(s): the start of the leftmost match, 0 when there is none
date_search(s) ==
  LET hits == {i \in 1..Len(s) : date_match_len(s, i) > 0}
  IN  IF hits = {} THEN 0 ELSE CHOOSE i \in hits : \A j \in hits : i <= j

\* re.sub(DATE_REGEX, repl, s): every match replaced, left to right
RECURSIVE date_sub(_, _)
date_sub(s, repl) ==
  LET i == date_search(s)
  IN  IF i = 0 THEN s
      ELSE SubSeq(s, 1, i - 1) \o repl
             \o date_sub(SubSeq(s, i + date_match_len(s, i), Len(s)), repl)

\* the blocklist test that matches whole keywords only, not substrings
is_filtered_ExactMatch(keyword) ==
  \E f \in 1..Len(FILTER_KEYWORDS) : keyword = FILTER_KEYWORDS[f]

\* the blocklist test of process_and_deduplicate_keywords, src/main.py:283-290
is_filtered(keyword) ==
  \E f \in 1..Len(FILTER_KEYWORDS) : contains(keyword, FILTER_KEYWORDS[f])

\* the date handling of one keyword that appends today's date to a quiz
\* keyword without the separating space
process_keyword_NoSeparator(keyword, today) ==
  LET md            == today_date_str_md(today)
      m             == date_search(keyword)
      contains_quiz == contains(keyword, QUIZ_TERM)
      old_date_str  == SubSeq(keyword, m, m + date_match_len(keyword, m) - 1)
      first         == IF m > 0 THEN replace(keyword, old_date_str, md)
                       ELSE IF contains_quiz THEN keyword \o md
                       ELSE keyword
      resub         == strip(date_sub(keyword, md))
  IN  IF contains_quiz /\ m > 0
      THEN IF ~contains(resub, QUIZ_TERM) THEN resub \o <<32>> \o md ELSE resub
      ELSE first

\* the date handling of one keyword, src/main.py:293-313
process_keyword(keyword, today) ==
  LET md            == today_date_str_md(today)
      m             == date_search(keyword)
      contains_quiz == contains(keyword, QUIZ_TERM)
      old_date_str  == SubSeq(keyword, m, m + date_match_len(keyword, m) - 1)
      first         == IF m > 0 THEN replace(keyword, old_date_str, md)
                       ELSE IF contains_quiz THEN keyword \o <<32>> \o md
                       ELSE keyword
      resub         == strip(date_sub(keyword, md))
  IN  IF contains_quiz /\ m > 0
      THEN IF ~contains(resub, QUIZ_TERM) THEN resub \o <<32>> \o md ELSE resub
      ELSE first

\* process_and_deduplicate_keywords without the set and the sort of
\* src/main.py:318-323: the processed keywords in the order of the raw ones
process_and_deduplicate_keywords_InputOrder(raw_keywords, today) ==
  LET kept == SelectSeq(raw_keywords, LAMBDA k : ~is_filtered(k))
  IN  [n \in 1..Len(kept) |-> process_keyword(kept[n], today)]

\* process_and_deduplicate_keywords(raw_keywords, today), src/main.py:275-325
process_and_deduplicate_keywords(raw_keywords, today) ==
  sorted({process_keyword(raw_keywords[n], today) :
            n \in {m \in 1..Len(raw_keywords) : ~is_filtered(raw_keywords[m])}})

\* \w of the re module within the model's alphabet: ASCII letters and digits,
\* the underscore, Hangul syllables and Hangul compatibility jamo
IsWordChar(c) ==
  \/ IsDigit(c) \/ (c >= 65 /\ c <= 90) \/ (c >= 97 /\ c <= 122) \/ c = 95
  \/ (c >= 44032 /\ c <= 55203) \/ (c >= 12593 /\ c <= 12686)

\* normalize_keyword of group_similar_keywords, src/main.py:333-338
normalize_keyword(kw) ==
  SelectSeq(remove_spaces(kw), LAMBDA c : IsWordChar(c) \/ IsSpace(c))

\* the test that puts a keyword into the group of group_key, src/main.py:350-363
is_similar(normalized, group_normalized) ==
  \/ contains(group_normalized, normalized)
  \/ contains(normalized, group_normalized)
  \/ /\ Cardinality(Range(normalized) \cap Range(group_normalized)) >= 2
     /\ Len(normalized) >= 3
     /\ Len(group_normalized) >= 3

\* one iteration of the grouping loop, src/main.py:344-367: the keyword joins
\* the first group (in creation order) whose key it is similar to, or starts one
add_to_groups(keyword_groups, keyword) ==
  LET hits == {g \in 1..Len(keyword_groups) :
                 is_similar(normalize_keyword(keyword),
                            normalize_keyword(keyword_groups[g][1]))}
  IN  IF hits = {} THEN Append(keyword_groups, <<keyword>>)
      ELSE LET g == CHOOSE h \in hits : \A j \in hits : h <= j
           IN  [keyword_groups EXCEPT ![g] = Append(@, keyword)]

RECURSIVE build_groups(_, _)
build_groups(keyword_groups, keywords) ==
  IF keywords = <<>> THEN keyword_groups
  ELSE build_groups(add_to_groups(keyword_groups, Head(keywords)), Tail(keywords))

\* representative taking the last member of maximal length instead of the first
representative_LastLongest(group) ==
  LET best == CHOOSE i \in 1..Len(group) :
                /\ \A j \in 1..Len(group) : Len(group[j]) <= Len(group[i])
                /\ \A j \in (i + 1)..Len(group) : Len(group[j]) < Len(group[i])
  IN  group[best]

\* max(group, key=len): the first member of maximal length, src/main.py:373
representative(group) ==
  LET best == CHOOSE i \in 1..Len(group) :
                /\ \A j \in 1..Len(group) : Len(group[j]) <= Len(group[i])
                /\ \A j \in 1..(i - 1) : Len(group[j]) < Len(group[i])
  IN  group[best]

\* group_similar_keywords(keywords), src/main.py:327-380
group_similar_keywords(keywords) ==
  LET keyword_groups == build_groups(<<>>, keywords)
  IN  [g \in 1..Len(keyword_groups) |-> representative(keyword_groups[g])]

\* the annual pre-filter of the raw keywords, src/main.py:509-519
annual_prefilter(raw_keywords, annual_posted_this_year) ==
  SelectSeq(raw_keywords,
            LAMBDA kw : ~(/\ is_annual_keyword(kw)
                          /\ \E annual \in annual_posted_this_year : contains(kw, annual)))

\* the reorder of src/main.py:526-536 done in every month
prioritize_annual_AllYear(processed_keywords, is_early_in_year) ==
  SelectSeq(processed_keywords, is_annual_keyword)
    \o SelectSeq(processed_keywords, LAMBDA k : ~is_annual_keyword(k))

\* annual-topic keywords first in January and February, src/main.py:526-536
prioritize_annual(processed_keywords, is_early_in_year) ==
  IF is_early_in_year
  THEN SelectSeq(processed_keywords, is_annual_keyword)
         \o SelectSeq(processed_keywords, LAMBDA k : ~is_annual_keyword(k))
  ELSE processed_keywords

\* the final filtering pass, src/main.py:550-565
final_filter(processed_keywords, annual_posted_this_year) ==
  SelectSeq(processed_keywords,
            LAMBDA keyword :
              ~(/\ is_annual_keyword(keyword)
                /\ \/ \E annual \in annual_posted_this_year :
                        strip(lower(keyword)) = strip(lower(annual))
                   \/ \E annual \in annual_posted_this_year :
                        contains(lower(keyword), lower(annual))))

\* raw keywords to the work list of the loop, src/main.py:506-565 (login done)
work_list(raw_keywords, today, annual_posted_this_year) ==
  IF raw_keywords = <<>> THEN <<>>
  ELSE final_filter(
         prioritize_annual(
           group_similar_keywords(
             process_and_deduplicate_keywords(
               annual_prefilter(raw_keywords, annual_posted_this_year), today)),
           today.m <= 2),
         annual_posted_this_year)

(***************************************************************************)
(* Inputs of the model                                                     *)
(***************************************************************************)
KW_YEONMAL == <<50672, 47568, 51221, 49328>>  \* "연말정산"
KW_SAMSUNG == <<49340, 49457, 51204, 51088, 32, 44288, 47144, 51452>>  \* "삼성전자 관련주"
KW_YEONMAL_STOCK == <<50672, 47568, 51221, 49328, 32, 44288, 47144, 51452>>  \* "연말정산 관련주"
KW_WEATHER == <<50724, 45720, 45216, 50472, 32, 50696, 48372>>  \* "오늘날씨 예보"
KW_DRUG_STOCK == <<47560, 50557, 32, 44288, 47144, 51452>>  \* "마약 관련주"
GARBAGE_LINE == <<103, 97, 114, 98, 97, 103, 101, 32, 108, 105, 110, 101>>  \* "garbage line"

\* how many runs of run_trend_blogger a behaviour holds
MaxRuns == 2

\* the KST dates a run can fall on: two days of one year, then the next year
Days ==
  << [y |-> 2024, m |-> 12, d |-> 30],
     [y |-> 2024, m |-> 12, d |-> 31],
     [y |-> 2025, m |-> 1, d |-> 1] >>

\* what get_trending_keywords can return (src/scraper.py:92): lists of
\* distinct stripped strings longer than three characters, or nothing
ScrapeResults ==
  { <<KW_YEONMAL, KW_SAMSUNG>>,
    <<KW_YEONMAL_STOCK, KW_WEATHER>>,
    <<KW_DRUG_STOCK, KW_WEATHER>>,
    <<>> }

\* the ledger file a first run can find: none, or lines written earlier
\* (by hand or by an earlier run), one of them malformed
InitLedgers ==
  { [exists |-> FALSE, lines |-> <<>>],
    [exists |-> TRUE,
     lines  |-> <<ledger_line(today_kst_str(Days[1]), KW_SAMSUNG), GARBAGE_LINE>>],
    [exists |-> TRUE,
     lines  |-> <<ledger_line(today_kst_str(Days[1]), KW_YEONMAL_STOCK),
                  ledger_line(today_kst_str(Days[1]), KW_WEATHER)>>] }

\* the tag lists generate_tags_from_content can return (src/llm_client.py:155,158,162)
TagResults == { <<>>, << <<116, 97, 103>> >> }

(***************************************************************************)
(* State                                                                   *)
(***************************************************************************)
VARIABLES
  pc,                      \* where run_trend_blogger stands; "idle" between runs
  runs,                    \* runs started so far
  today_ix,                \* index in Days of the current run's today_kst_date
  ledger_exists,           \* os.path.exists(POSTED_LOG_FILE)
  ledger,                  \* the lines of POSTED_LOG_FILE
  backup,                  \* the lines of POSTED_LOG_FILE.bak
  posted_today_set,        \* src/main.py:444
  annual_posted_this_year, \* src/main.py:447
  naver_poster,            \* TRUE once NaverBlogPoster(config={}) returned
  driver,                  \* naver_poster.driver is not None
  login_successful,        \* src/main.py:457
  processed_keywords,      \* src/main.py:522
  i,                       \* position of the loop in processed_keywords (1-based)
  posted_count,            \* src/main.py:548
  tags_to_use,             \* src/main.py:609-611
  attempt,                 \* loop variable of log_posted_keyword
  exit_path,               \* how the try block of the run was left
  driver_created,          \* webdriver.Chrome(...) returned in this run
  quit_calls,              \* calls of driver.quit() in this run
  scrape_calls,            \* calls of get_trending_keywords in this run
  content_calls,           \* keywords passed to generate_post_content in this run
  publish_calls,           \* keywords passed to create_post in this run
  published,               \* keywords whose create_post returned True in this run
  appended,                \* keywords whose ledger line was written in this run
  log_returned,            \* keywords whose log_posted_keyword call returned
  pub_log,                 \* every successful publish so far: <<day index, keyword>>
  ledger_at_start,         \* the ledger file when the run began
  ledger_loaded,           \* the ledger lines after compaction, as the loads read them
  loaded_today,            \* what load_posted_today returned (src/main.py:444)
  loaded_annual,           \* what load_annual_keywords_posted_this_year returned (447)
  interrupted,             \* a KeyboardInterrupt has ended some run so far
  log_file,                \* the log_file argument of log_posted_keyword, as path components
  args,                    \* the arguments of the function applied on its own
  result,                  \* what that function returned: <<>> before the call, <<value>> after
  raw_keywords,            \* src/main.py:456, 498, 503
  content_failed,          \* keywords whose generate_post_content returned nothing
  final_report,            \* which message the finally block logged (src/main.py:657-663)
  scrape_outcome           \* how the scrape of this run went (src/main.py:496-503)

file_vars == <<ledger_exists, ledger, backup>>
set_vars  == <<posted_today_set, annual_posted_this_year>>
sess_vars == <<naver_poster, driver, login_successful, driver_created, quit_calls>>
loop_vars == <<processed_keywords, i, posted_count, tags_to_use, attempt>>
obs_vars  == <<scrape_calls, content_calls, publish_calls, published, appended,
               log_returned, pub_log>>
start_vars == <<runs, today_ix, ledger_at_start, ledger_loaded, loaded_today,
                loaded_annual, interrupted, log_file, args, result>>
rep_vars == <<raw_keywords, content_failed, final_report, scrape_outcome>>
vars == <<pc, exit_path, file_vars, set_vars, sess_vars, loop_vars, obs_vars, start_vars,
          rep_vars>>

today == Days[today_ix]
keyword == processed_keywords[i]


Init ==
  /\ pc = "idle"
  /\ runs = 0
  /\ today_ix = 1
  /\ \E f \in InitLedgers : ledger_exists = f.exists /\ ledger = f.lines
  /\ backup = <<>>
  /\ posted_today_set = {}
  /\ annual_posted_this_year = {}
  /\ naver_poster = FALSE
  /\ driver = FALSE
  /\ login_successful = FALSE
  /\ processed_keywords = <<>>
  /\ i = 0
  /\ posted_count = 0
  /\ tags_to_use = <<>>
  /\ attempt = 0
  /\ exit_path = "none"
  /\ driver_created = FALSE
  /\ quit_calls = 0
  /\ scrape_calls = 0
  /\ content_calls = {}
  /\ publish_calls = {}
  /\ published = {}
  /\ appended = <<>>
  /\ log_returned = {}
  /\ pub_log = <<>>
  /\ ledger_at_start = ledger
  /\ ledger_loaded = ledger
  /\ loaded_today = {}
  /\ loaded_annual = {}
  /\ interrupted = FALSE
  /\ log_file = POSTED_LOG_FILE
  /\ args = [fn |-> "none"]
  /\ result = <<>>
  /\ raw_keywords = <<>>
  /\ content_failed = {}
  /\ final_report = "none"
  /\ scrape_outcome = "none"

(***************************************************************************)
(* run_trend_blogger, src/main.py:426-667, one action per step between     *)
(* its calls of the outside world                                          *)
(***************************************************************************)
\* src/main.py:430-460: compaction of the ledger, today's date, the two loads
StartRun ==
  /\ pc = "idle"
  /\ runs < MaxRuns
  /\ \E d \in today_ix..Len(Days), read_upto \in 0..Len(ledger), write_fails \in BOOLEAN :
       LET cleaned == IF ledger_exists
                      THEN clean_log_file(ledger, read_upto, write_fails)
                      ELSE ledger
       IN  /\ today_ix' = d
           /\ ledger_at_start' = ledger
           /\ ledger' = cleaned
           /\ backup' = IF ledger_exists THEN ledger ELSE backup
           /\ posted_today_set' =
                load_posted_today(ledger_exists, cleaned, today_kst_str(Days[d]))
           /\ annual_posted_this_year' =
                load_annual_keywords_posted_this_year(ledger_exists, cleaned,
                                                      current_year(Days[d]))
           /\ ledger_loaded' = cleaned
           /\ loaded_today' = posted_today_set'
           /\ loaded_annual' = annual_posted_this_year'
  /\ runs' = runs + 1
  /\ pc' = "init_clients"
  /\ exit_path' = "none"
  /\ naver_poster' = FALSE /\ driver' = FALSE /\ login_successful' = FALSE
  /\ driver_created' = FALSE /\ quit_calls' = 0
  /\ processed_keywords' = <<>> /\ i' = 0 /\ posted_count' = 0
  /\ tags_to_use' = <<>> /\ attempt' = 0
  /\ scrape_calls' = 0 /\ content_calls' = {} /\ publish_calls' = {}
  /\ published' = {} /\ appended' = <<>> /\ log_returned' = {}
  /\ raw_keywords' = <<>> /\ content_failed' = {} /\ final_report' = "none"
  /\ scrape_outcome' = "none"
  /\ UNCHANGED <<ledger_exists, pub_log, interrupted, log_file, args, result>>

\* src/main.py:464-482: an API key or the Naver credentials are missing
\* (LLMClient.__init__, src/llm_client.py:18-20; NaverBlogPoster.__init__,
\* src/naver_poster.py:28-30): return, through the finally block
InitClientsFail ==
  /\ pc = "init_clients"
  /\ pc' = "finally"
  /\ exit_path' = "credentials"
  /\ UNCHANGED <<file_vars, set_vars, sess_vars, loop_vars, obs_vars, start_vars, rep_vars>>

\* src/main.py:464-476: both clients and the poster are constructed
InitClientsOk ==
  /\ pc = "init_clients"
  /\ naver_poster' = TRUE
  /\ pc' = "login"
  /\ UNCHANGED <<exit_path, driver, login_successful, driver_created, quit_calls,
                 file_vars, set_vars, loop_vars, obs_vars, start_vars, rep_vars>>

\* NaverBlogPoster.close, src/naver_poster.py:577-586: whether self.driver is
\* still set afterwards (quit raised before the reference was cleared)
close_leaves_driver(drv, quit_raises) == drv /\ quit_raises

\* the calls of driver.quit() one close() makes
close_quit_calls(drv) == IF drv THEN 1 ELSE 0

\* manual_login with setup_driver returning False, src/naver_poster.py:527-529
\* and 32-79: before webdriver.Chrome returned, or after it (self.driver set)
SetupDriverFail ==
  /\ pc = "login"
  /\ \E created \in BOOLEAN : driver' = created /\ driver_created' = created
  /\ pc' = "finally"
  /\ exit_path' = "login_failed"
  /\ UNCHANGED <<naver_poster, login_successful, quit_calls,
                 file_vars, set_vars, loop_vars, obs_vars, start_vars, rep_vars>>

\* LoginFail with the return of src/main.py:489 lost: the run goes on to
\* line 490 and scrapes
LoginFail_NoReturn ==
  /\ pc = "login"
  /\ \E quit_raises \in BOOLEAN : driver' = close_leaves_driver(TRUE, quit_raises)
  /\ driver_created' = TRUE
  /\ quit_calls' = quit_calls + close_quit_calls(TRUE)
  /\ login_successful' = TRUE
  /\ pc' = "scrape"
  /\ exit_path' = "login_failed"
  /\ UNCHANGED <<naver_poster, file_vars, set_vars, loop_vars, obs_vars, start_vars, rep_vars>>

\* manual_login with login() returning False, src/naver_poster.py:523-526:
\* close() is called before False is returned; src/main.py:486-489 returns
LoginFail ==
  /\ pc = "login"
  /\ \E quit_raises \in BOOLEAN : driver' = close_leaves_driver(TRUE, quit_raises)
  /\ driver_created' = TRUE
  /\ quit_calls' = quit_calls + close_quit_calls(TRUE)
  /\ pc' = "finally"
  /\ exit_path' = "login_failed"
  /\ UNCHANGED <<naver_poster, login_successful,
                 file_vars, set_vars, loop_vars, obs_vars, start_vars, rep_vars>>

\* manual_login returns True, src/main.py:490-491
LoginOk ==
  /\ pc = "login"
  /\ driver' = TRUE
  /\ driver_created' = TRUE
  /\ login_successful' = TRUE
  /\ pc' = "scrape"
  /\ UNCHANGED <<exit_path, naver_poster, quit_calls,
                 file_vars, set_vars, loop_vars, obs_vars, start_vars, rep_vars>>

\* how a call of get_trending_keywords can go: it returns what it extracted;
\* a wait inside it times out or fails before anything was extracted
\* (src/scraper.py:35-41, 76-81); or it raises (src/main.py:499)
ScrapeOutcomes == {"returned", "timeout", "raised"}

\* scrape_result with the handlers of a failed scrape handing on a candidate
\* list all the same
scrape_result_KeepsCandidates(outcome, extracted) == extracted

\* raw_keywords after the scrape, src/main.py:496-503: after a timeout the
\* scraper returns its filter applied to the empty list (src/scraper.py:15,
\* 76-92); after an exception raw_keywords is set to [] (src/main.py:503)
scrape_result(outcome, extracted) ==
  IF outcome = "returned" THEN extracted ELSE <<>>

\* src/main.py:494-565: the scrape (an exception in it gives the empty list,
\* lines 499-503) and the pipeline down to the final filtering pass
Scrape ==
  /\ pc = "scrape"
  /\ \E outcome \in ScrapeOutcomes, extracted \in ScrapeResults :
       LET scraped == scrape_result(outcome, extracted)
       IN  /\ scrape_outcome' = outcome
           /\ raw_keywords' = scraped
           /\ processed_keywords' = work_list(scraped, today, annual_posted_this_year)
  /\ scrape_calls' = scrape_calls + 1
  /\ posted_count' = 0
  /\ IF processed_keywords' # <<>>
     THEN pc' = "check" /\ i' = 1 /\ exit_path' = exit_path
     ELSE pc' = "finally" /\ i' = 0 /\ exit_path' = "no_keywords"
  /\ UNCHANGED <<tags_to_use, attempt, file_vars, set_vars, sess_vars, start_vars,
                 content_failed, final_report,
                 content_calls, publish_calls, published, appended, log_returned,
                 pub_log>>

\* the for loop moves to its next keyword, or ends (src/main.py:567)
NextKeyword ==
  /\ i' = i + 1
  /\ IF i < Len(processed_keywords)
     THEN pc' = "check" /\ exit_path' = exit_path
     ELSE pc' = "finally" /\ exit_path' = "loop_done"

\* skips without the exemption of the stock-related keywords
skips_NoStockExemption(kw, today_set, annual_set) ==
  is_keyword_already_posted(kw, today_set, annual_set)

\* the skip test of the loop, src/main.py:573-575
skips(kw, today_set, annual_set) ==
  is_keyword_already_posted(kw, today_set, annual_set) /\ ~is_related_stock_keyword(kw)

\* src/main.py:575-578: the keyword is skipped
SkipPosted ==
  /\ pc = "check"
  /\ skips(keyword, posted_today_set, annual_posted_this_year)
  /\ NextKeyword
  /\ UNCHANGED <<processed_keywords, posted_count, tags_to_use, attempt,
                 file_vars, set_vars, sess_vars, obs_vars, start_vars, rep_vars>>

\* src/main.py:579-591: the keyword is processed; generate_post_content is called
BeginKeyword ==
  /\ pc = "check"
  /\ ~skips(keyword, posted_today_set, annual_posted_this_year)
  /\ content_calls' = content_calls \cup {keyword}
  /\ pc' = "content"
  /\ UNCHANGED <<exit_path, loop_vars, file_vars, set_vars, sess_vars, start_vars, rep_vars,
                 scrape_calls, publish_calls, published, appended, log_returned,
                 pub_log>>

\* generate_post_content returned text, src/main.py:595
ContentOk ==
  /\ pc = "content"
  /\ pc' = "tags"
  /\ UNCHANGED <<exit_path, loop_vars, file_vars, set_vars, sess_vars, obs_vars,
                 start_vars, rep_vars>>

\* ContentNone with a "break" in place of falling through the else branch:
\* the failure of one keyword ends the loop
ContentNone_Breaks ==
  /\ pc = "content"
  /\ content_failed' = content_failed \cup {keyword}
  /\ pc' = "finally"
  /\ exit_path' = "loop_done"
  /\ UNCHANGED <<loop_vars, file_vars, set_vars, sess_vars, obs_vars, start_vars,
                 raw_keywords, final_report, scrape_outcome>>

\* generate_post_content returned None (src/llm_client.py:315-317) or an empty
\* string: the keyword is skipped, src/main.py:639-640
ContentNone ==
  /\ pc = "content"
  /\ content_failed' = content_failed \cup {keyword}
  /\ NextKeyword
  /\ UNCHANGED <<processed_keywords, posted_count, tags_to_use, attempt,
                 file_vars, set_vars, sess_vars, obs_vars, start_vars,
                 raw_keywords, final_report, scrape_outcome>>

\* generate_post_content raised: a response without choices makes line 233
\* raise IndexError before content is bound, and the handler's "return content"
\* (src/llm_client.py:312-314) raises UnboundLocalError; a None message content
\* raises AttributeError.  The loop has no handler of its own: src/main.py:649
ContentRaises ==
  /\ pc = "content"
  /\ pc' = "finally"
  /\ exit_path' = "content_raised"
  /\ UNCHANGED <<loop_vars, file_vars, set_vars, sess_vars, obs_vars, start_vars, rep_vars>>

\* generate_tags_from_content and the fallback tag, src/main.py:604-611
GenerateTags ==
  /\ pc = "tags"
  /\ \E generated_tags \in TagResults :
       tags_to_use' = IF generated_tags = <<>>
                      THEN <<remove_spaces(keyword)>>
                      ELSE generated_tags
  /\ pc' = "publish"
  /\ UNCHANGED <<exit_path, processed_keywords, i, posted_count, attempt,
                 file_vars, set_vars, sess_vars, obs_vars, start_vars, rep_vars>>

\* create_post returned True, src/main.py:618-622; log_posted_keyword is entered
PublishOk ==
  /\ pc = "publish"
  /\ publish_calls' = publish_calls \cup {keyword}
  /\ published' = published \cup {keyword}
  /\ pub_log' = Append(pub_log, <<today_ix, keyword>>)
  /\ posted_count' = posted_count + 1
  /\ attempt' = 0
  /\ pc' = "log"
  /\ UNCHANGED <<exit_path, processed_keywords, i, tags_to_use, file_vars, set_vars,
                 sess_vars, start_vars, rep_vars, scrape_calls, content_calls, appended,
                 log_returned>>

\* PublishFail with the test of "success" (src/main.py:620) lost: the failed
\* publish goes on to log_posted_keyword like a successful one
PublishFail_LogsAnyway ==
  /\ pc = "publish"
  /\ publish_calls' = publish_calls \cup {keyword}
  /\ attempt' = 0
  /\ pc' = "log"
  /\ UNCHANGED <<exit_path, processed_keywords, i, posted_count, tags_to_use,
                 file_vars, set_vars, sess_vars, start_vars, rep_vars, scrape_calls,
                 content_calls, published, appended, log_returned, pub_log>>

\* create_post returned False, src/main.py:630-631
PublishFail ==
  /\ pc = "publish"
  /\ publish_calls' = publish_calls \cup {keyword}
  /\ pc' = "delay"
  /\ UNCHANGED <<exit_path, loop_vars, file_vars, set_vars, sess_vars, start_vars, rep_vars,
                 scrape_calls, content_calls, published, appended, log_returned,
                 pub_log>>

\* AttemptRaised with the "raise" of src/main.py:273 lost: the last failed
\* attempt is swallowed and log_posted_keyword returns like a successful one
AttemptRaised_Swallowed ==
  IF attempt < max_retries - 1
  THEN attempt' = attempt + 1 /\ pc' = pc /\ exit_path' = exit_path
  ELSE attempt' = attempt /\ pc' = "delay" /\ exit_path' = exit_path

\* an attempt of log_posted_keyword raised, src/main.py:267-273: retry after
\* a sleep, or re-raise after the last attempt (to src/main.py:649)
AttemptRaised ==
  IF attempt < max_retries - 1
  THEN attempt' = attempt + 1 /\ pc' = pc /\ exit_path' = exit_path
  ELSE attempt' = attempt /\ pc' = "finally" /\ exit_path' = "log_raised"

\* one attempt of log_posted_keyword(log_file, today_kst_str, keyword),
\* src/main.py:248-273, and on its return the in-memory updates of
\* src/main.py:625-629.  os.makedirs comes first; then the write, which can
\* fail before the line is written or after it (flush, fsync, close).
LogAttempt ==
  /\ pc = "log"
  /\ IF makedirs_raises(os_path_dirname(log_file))
     THEN /\ AttemptRaised
          /\ UNCHANGED <<file_vars, set_vars, appended, log_returned>>
     ELSE \E outcome \in {"written", "fails_before_write", "fails_after_write"} :
            /\ ledger_exists' = TRUE
            /\ backup' = backup
            /\ IF outcome = "fails_before_write"
               THEN ledger' = ledger /\ appended' = appended
               ELSE /\ ledger' = Append(ledger, ledger_line(today_kst_str(today), keyword))
                    /\ appended' = Append(appended, keyword)
            /\ IF outcome = "written"
               THEN /\ log_returned' = log_returned \cup {keyword}
                    /\ posted_today_set' = posted_today_set \cup {keyword}
                    /\ annual_posted_this_year' =
                         IF is_annual_keyword(keyword)
                         THEN annual_posted_this_year \cup {keyword}
                         ELSE annual_posted_this_year
                    /\ attempt' = attempt /\ pc' = "delay" /\ exit_path' = exit_path
               ELSE /\ AttemptRaised
                    /\ UNCHANGED <<set_vars, log_returned>>
  /\ UNCHANGED <<processed_keywords, i, posted_count, tags_to_use, sess_vars,
                 start_vars, rep_vars, scrape_calls, content_calls, publish_calls, published,
                 pub_log>>

\* the delay between posts, src/main.py:633-638, then the next keyword
Delay ==
  /\ pc = "delay"
  /\ NextKeyword
  /\ UNCHANGED <<processed_keywords, posted_count, tags_to_use, attempt,
                 file_vars, set_vars, sess_vars, obs_vars, start_vars, rep_vars>>

\* Interrupt with the KeyboardInterrupt caught inside the loop: the run goes
\* on with the delay and the next keyword
Interrupt_Swallowed ==
  /\ pc \in {"login", "scrape", "content", "tags", "publish", "log", "delay"}
  /\ IF pc = "login"
     THEN \E created \in BOOLEAN : driver' = created /\ driver_created' = created
     ELSE UNCHANGED <<driver, driver_created>>
  /\ pc' = "delay"
  /\ exit_path' = "interrupt"
  /\ interrupted' = TRUE
  /\ UNCHANGED <<naver_poster, login_successful, quit_calls, loop_vars, file_vars,
                 set_vars, obs_vars, runs, today_ix, ledger_at_start, ledger_loaded,
                 loaded_today, loaded_annual, log_file, args, result, rep_vars>>

\* KeyboardInterrupt during a blocking call inside the try block,
\* src/main.py:647-648; during manual_login the driver may exist already
Interrupt ==
  /\ pc \in {"login", "scrape", "content", "tags", "publish", "log", "delay"}
  /\ IF pc = "login"
     THEN \E created \in BOOLEAN : driver' = created /\ driver_created' = created
     ELSE UNCHANGED <<driver, driver_created>>
  /\ pc' = "finally"
  /\ exit_path' = "interrupt"
  /\ interrupted' = TRUE
  /\ UNCHANGED <<naver_poster, login_successful, quit_calls, loop_vars, file_vars,
                 set_vars, obs_vars, runs, today_ix, ledger_at_start, ledger_loaded,
                 loaded_today, loaded_annual, log_file, args, result, rep_vars>>

\* the message of src/main.py:657-663.  processed_keywords is first bound at
\* line 522 or 538: when login succeeded and control left the try block
\* before that, the test of line 658 raises UnboundLocalError (caught at 664)
final_message(login_ok, bound, keywords) ==
  IF ~login_ok THEN "login_failure"
  ELSE IF ~bound THEN "UnboundLocalError"
  ELSE IF keywords # <<>> THEN "counts"
  ELSE "no_keywords"

\* the finally block, src/main.py:651-663: close the poster if there is one,
\* then the final message
Finally ==
  /\ pc = "finally"
  /\ \E quit_raises \in BOOLEAN :
       driver' = (naver_poster /\ close_leaves_driver(driver, quit_raises))
  /\ quit_calls' = quit_calls + (IF naver_poster THEN close_quit_calls(driver) ELSE 0)
  /\ final_report' = final_message(login_successful, scrape_calls > 0, processed_keywords)
  /\ pc' = "idle"
  /\ UNCHANGED <<exit_path, naver_poster, login_successful, driver_created,
                 loop_vars, file_vars, set_vars, obs_vars, start_vars,
                 raw_keywords, content_failed, scrape_outcome>>

Next ==
  \/ StartRun
  \/ InitClientsFail
  \/ InitClientsOk
  \/ SetupDriverFail
  \/ LoginFail
  \/ LoginOk
  \/ Scrape
  \/ SkipPosted
  \/ BeginKeyword
  \/ ContentOk
  \/ ContentNone
  \/ ContentRaises
  \/ GenerateTags
  \/ PublishOk
  \/ PublishFail
  \/ LogAttempt
  \/ Delay
  \/ Interrupt
  \/ Finally

Spec == Init /\ [][Next]_vars

(***************************************************************************)
(* Properties                                                              *)
(***************************************************************************)
\* a run has ended (the finally block is through)
RunEnded == pc = "idle" /\ runs > 0

\* the year of the day with index d
year_of(d) == Days[d].y

\* how many ledger lines this run wrote for keyword k
records_of(k) == Cardinality({n \in 1..Len(appended) : appended[n] = k})

\* C1: publish-then-log.  In a run the ledger is what compaction left plus the
\* lines the run wrote; a line is written only for a keyword whose publish call
\* returned success in this run, and control is inside log_posted_keyword only
\* for such a keyword; a keyword enters the in-memory sets only once its
\* log_posted_keyword call has returned.
C1_PublishThenLog ==
  runs > 0 =>
    /\ ledger = ledger_loaded
                  \o [n \in 1..Len(appended) |->
                        ledger_line(today_kst_str(today), appended[n])]
    /\ Range(appended) \subseteq published
    /\ pc = "log" => keyword \in published
    /\ log_returned \subseteq Range(appended)
    /\ posted_today_set = loaded_today \cup log_returned
    /\ annual_posted_this_year =
         loaded_annual \cup {k \in log_returned : is_annual_keyword(k)}

\* C1 witness: a run ended in which one keyword's publish failed and another's
\* succeeded; the failed one has no record and is in no in-memory set
C1_Witness ==
  /\ RunEnded
  /\ published # {}
  /\ \E k \in publish_calls \ published :
       /\ k \notin Range(appended)
       /\ k \notin posted_today_set

\* C2: once control has left log_posted_keyword (and no interrupt cut the run
\* short), every keyword published successfully in this run has exactly one
\* new ledger record
C2_ExactlyOneRecord ==
  (pc # "log" /\ exit_path # "interrupt") => \A k \in published : records_of(k) = 1

\* C3: as long as no run was interrupted, a keyword that is neither
\* annual-topic nor stock-related is published successfully at most once on
\* one day
C3_OncePerDay ==
  interrupted \/ \A a, b \in 1..Len(pub_log) :
    (/\ a # b
     /\ pub_log[a] = pub_log[b]
     /\ ~is_annual_keyword(pub_log[a][2]))
      => is_related_stock_keyword(pub_log[a][2])

\* C4: as long as no run was interrupted, an annual-topic keyword is
\* published successfully at most once in one calendar year
C4_OncePerYear ==
  interrupted \/ \A a, b \in 1..Len(pub_log) :
    (/\ a # b
     /\ pub_log[a][2] = pub_log[b][2]
     /\ is_annual_keyword(pub_log[a][2]))
      => year_of(pub_log[a][1]) # year_of(pub_log[b][1])

\* C5: a stock-related keyword that is not annual-topic is never skipped by
\* the daily check: once the loop is past it, generate_post_content was
\* called for it, whether or not today's set held it
C5_StockNotSkipped ==
  \A j \in 1..Len(processed_keywords) :
    (/\ j < i
     /\ is_related_stock_keyword(processed_keywords[j])
     /\ ~is_annual_keyword(processed_keywords[j]))
      => processed_keywords[j] \in content_calls

\* C5 witness: a stock-related keyword that today's ledger already held was
\* published again
C5_Witness ==
  \E k \in published :
    /\ is_related_stock_keyword(k)
    /\ ~is_annual_keyword(k)
    /\ k \in loaded_today
    /\ ledger_line(today_kst_str(today), k) \in Range(ledger_at_start)

\* C6: the exemption covers the daily check only: as long as no run was
\* interrupted, a keyword both stock-related and annual-topic is published at
\* most once in one calendar year, and no stock-related keyword holding a
\* blocklisted term is ever published
C6_ExemptionDailyOnly ==
  /\ interrupted \/ \A a, b \in 1..Len(pub_log) :
       (/\ a # b
        /\ pub_log[a][2] = pub_log[b][2]
        /\ is_related_stock_keyword(pub_log[a][2])
        /\ is_annual_keyword(pub_log[a][2]))
         => year_of(pub_log[a][1]) # year_of(pub_log[b][1])
  /\ \A a \in 1..Len(pub_log) :
       is_related_stock_keyword(pub_log[a][2]) => ~is_filtered(pub_log[a][2])

\* C7: a run that got into the loop and was not ended by an interrupt went
\* through every keyword of its work list, whatever was raised on the way
C7_LoopNotAborted ==
  (RunEnded /\ processed_keywords # <<>> /\ exit_path # "interrupt")
    => i > Len(processed_keywords)

\* C8: a run in which the browser session was created has called quit exactly
\* once when it ends
C8_QuitExactlyOnce == (RunEnded /\ driver_created) => quit_calls = 1

\* C9: a run that ended for missing credentials left the ledger file as it
\* found it
C9_LedgerUntouched ==
  (RunEnded /\ exit_path = "credentials") => ledger = ledger_at_start

\* C10: after manual_login returned False nothing is scraped, no keyword is
\* processed, nothing is published and no ledger line is written
C10_LoginFailureStopsRun ==
  exit_path = "login_failed" =>
    /\ scrape_calls = 0
    /\ processed_keywords = <<>>
    /\ content_calls = {}
    /\ publish_calls = {}
    /\ appended = <<>>
    /\ ledger = ledger_loaded

\* C10 witness: a run ended by a login failure with the session created
C10_Witness == RunEnded /\ exit_path = "login_failed" /\ driver_created

(***************************************************************************)
(* The keyword loop on its own, with the log_file argument as an input     *)
(***************************************************************************)
\* paths log_posted_keyword can be given: the one run_trend_blogger passes,
\* and one with a directory component ("logs/posted_log.txt")
LogFiles == {POSTED_LOG_FILE, <<<<108, 111, 103, 115>>, POSTED_LOG_FILE[1]>>}

\* a trending keyword with upper-case letters
KW_AI_INVEST == <<65, 73, 32, 53804, 51088>>  \* "AI 투자"

\* an annual-topic keyword followed by a month and a day
KW_YEONMAL_DATED == KW_YEONMAL \o <<32, 51, 50900, 32, 49, 51068>>  \* "연말정산 3월 1일"

\* a keyword with a tab between its words, as textContent can hold it
\* (src/scraper.py:266)
KW_SAMSUNG_TAB == <<49340, 49457, 51204, 51088, 9, 51452, 44032>>  \* "삼성전자<TAB>주가"

\* what the scrape handed to the loop: the lists of ScrapeResults, one of
\* three keywords, one whose keyword has upper-case letters, one with a dated
\* annual-topic keyword, and one whose first keyword holds a tab
LoopScrapeResults ==
  ScrapeResults \cup {<<KW_YEONMAL, KW_SAMSUNG, KW_WEATHER>>, <<KW_AI_INVEST>>,
                      <<KW_YEONMAL_DATED>>, <<KW_SAMSUNG_TAB, KW_WEATHER>>}

\* the ledger files the run can find: those of InitLedgers, and the one that
\* the first day's publish of the dated annual-topic keyword left
LoopLedgers ==
  InitLedgers \cup
    { [exists |-> TRUE,
       lines  |-> <<ledger_line(today_kst_str(Days[1]),
                                process_keyword(KW_YEONMAL_DATED, Days[1]))>>] }

\* the state of a run at the head of its loop (src/main.py:567), login and
\* scrape done, the work list not empty
InitLoop ==
  /\ pc = "check"
  /\ runs = 1
  /\ today_ix \in {1, 2}
  /\ \E f \in LoopLedgers :
       /\ ledger_exists = f.exists
       /\ ledger_at_start = f.lines
       /\ ledger = (IF f.exists THEN valid_lines(f.lines) ELSE f.lines)
       /\ backup = (IF f.exists THEN f.lines ELSE <<>>)
  /\ ledger_loaded = ledger
  /\ posted_today_set = load_posted_today(ledger_exists, ledger, today_kst_str(today))
  /\ annual_posted_this_year =
       load_annual_keywords_posted_this_year(ledger_exists, ledger, current_year(today))
  /\ loaded_today = posted_today_set
  /\ loaded_annual = annual_posted_this_year
  /\ naver_poster = TRUE /\ driver = TRUE /\ login_successful = TRUE
  /\ driver_created = TRUE /\ quit_calls = 0
  /\ \E raw \in LoopScrapeResults :
       /\ raw_keywords = raw
       /\ processed_keywords = work_list(raw, today, annual_posted_this_year)
  /\ processed_keywords # <<>>
  /\ i = 1
  /\ posted_count = 0 /\ tags_to_use = <<>> /\ attempt = 0
  /\ exit_path = "none"
  /\ scrape_calls = 1 /\ content_calls = {} /\ publish_calls = {}
  /\ published = {} /\ appended = <<>> /\ log_returned = {} /\ pub_log = <<>>
  /\ interrupted = FALSE
  /\ log_file \in LogFiles
  /\ args = [fn |-> "none"]
  /\ result = <<>>
  /\ content_failed = {}
  /\ final_report = "none"
  /\ scrape_outcome = "returned"

\* the loop of src/main.py:567-646 and the finally block
NextLoop ==
  \/ SkipPosted
  \/ BeginKeyword
  \/ ContentOk
  \/ ContentNone
  \/ ContentRaises
  \/ GenerateTags
  \/ PublishOk
  \/ PublishFail
  \/ LogAttempt
  \/ Delay
  \/ Finally

SpecLoop == InitLoop /\ [][NextLoop]_vars

\* C11: log_posted_keyword makes at most max_retries attempts for a keyword
\* and no attempt after it returned; the loop goes past a published keyword
\* only when its append returned; and when the last attempt raised, the run
\* has left the loop and no later keyword of the work list was published
C11_RetryThenFatal ==
  /\ attempt \in 0..(max_retries - 1)
  /\ \A k \in published : records_of(k) <= max_retries
  /\ pc = "log" => keyword \notin log_returned
  /\ \A j \in 1..Len(processed_keywords) :
       (processed_keywords[j] \in published /\ (j < i \/ (j = i /\ pc \in {"delay", "check"})))
         => processed_keywords[j] \in log_returned
  /\ exit_path = "log_raised" =>
       /\ pc \in {"finally", "idle"}
       /\ attempt = max_retries - 1
       /\ keyword \in published \ log_returned
       /\ \A j \in (i + 1)..Len(processed_keywords) :
            processed_keywords[j] \notin publish_calls

\* C11 witness: with a path that has a directory, one keyword was logged on a
\* retry, the next one used up its attempts, and a keyword was still to come
C11_Witness ==
  /\ exit_path = "log_raised"
  /\ log_file # POSTED_LOG_FILE
  /\ \E k \in log_returned : records_of(k) = 2
  /\ i < Len(processed_keywords)

(***************************************************************************)
(* Functions applied on their own: the state outside the function          *)
(***************************************************************************)
\* no run of run_trend_blogger is going on and none has been
NoRun ==
  /\ runs = 0
  /\ today_ix = 1
  /\ posted_today_set = {}
  /\ annual_posted_this_year = {}
  /\ naver_poster = FALSE /\ driver = FALSE /\ login_successful = FALSE
  /\ processed_keywords = <<>> /\ i = 0 /\ posted_count = 0
  /\ tags_to_use = <<>> /\ attempt = 0
  /\ exit_path = "none"
  /\ driver_created = FALSE /\ quit_calls = 0
  /\ scrape_calls = 0 /\ content_calls = {} /\ publish_calls = {}
  /\ published = {} /\ appended = <<>> /\ log_returned = {} /\ pub_log = <<>>
  /\ loaded_today = {} /\ loaded_annual = {}
  /\ interrupted = FALSE
  /\ log_file = POSTED_LOG_FILE
  /\ raw_keywords = <<>> /\ content_failed = {} /\ final_report = "none" /\ scrape_outcome = "none"

\* there is no ledger file
NoFile ==
  /\ ledger_exists = FALSE
  /\ ledger = <<>>
  /\ backup = <<>>
  /\ ledger_at_start = <<>>
  /\ ledger_loaded = <<>>

\* what a function applied on its own leaves alone
run_vars == <<exit_path, set_vars, sess_vars, loop_vars, obs_vars, runs, today_ix,
              ledger_at_start, ledger_loaded, loaded_today, loaded_annual,
              interrupted, log_file, rep_vars>>

\* all sequences over S of length at most n
RECURSIVE SeqsUpTo(_, _)
SeqsUpTo(S, n) ==
  IF n = 0 THEN {<<>>}
  ELSE LET shorter == SeqsUpTo(S, n - 1)
       IN  shorter \cup {Append(q, x) : q \in shorter, x \in S}

(***************************************************************************)
(* clean_log_file step by step                                             *)
(***************************************************************************)
\* the longest ledger compaction is applied to
MaxLedgerLen == 3
\* how many times in a row compaction is applied to one ledger
MaxCompactions == 2

\* "2024-12-30" without a comma: a date prefix that is no record
DATE_ONLY_LINE == today_kst_str(Days[1])
\* a record with whitespace around it
PADDED_LINE == <<32, 32>> \o ledger_line(today_kst_str(Days[1]), KW_YEONMAL) \o <<32>>

\* the lines a ledger file can hold
LedgerLines ==
  { ledger_line(today_kst_str(Days[1]), KW_SAMSUNG),
    ledger_line(today_kst_str(Days[2]), KW_WEATHER),
    GARBAGE_LINE, DATE_ONLY_LINE, PADDED_LINE }

\* clean_log_file(log_file) is about to be called on an existing file
InitClean ==
  /\ NoRun
  /\ pc = "clean_backup"
  /\ ledger_exists = TRUE
  /\ ledger \in SeqsUpTo(LedgerLines, MaxLedgerLen)
  /\ backup = <<>>
  /\ ledger_at_start = ledger
  /\ ledger_loaded = ledger
  /\ args = [fn |-> "clean_log_file", original |-> ledger, valid |-> <<>>,
             round |-> 1, read |-> "none", write |-> "none"]
  /\ result = <<>>

\* shutil.copy2(log_file, backup_file), src/main.py:213-214; it is outside
\* every try of the function, so its exception leaves the function
CleanBackup ==
  /\ pc = "clean_backup"
  /\ \E copy_raises \in BOOLEAN :
       IF copy_raises
       THEN pc' = "clean_raised" /\ backup' = backup
       ELSE pc' = "clean_read" /\ backup' = ledger
  /\ UNCHANGED <<ledger, ledger_exists, args, result, run_vars>>

\* the read loop, src/main.py:221-229: the stripped lines that match
\* date_pattern are collected; an error ends the loop after read_upto lines
\* and is logged, nothing more
CleanRead ==
  /\ pc = "clean_read"
  /\ \E read_upto \in 0..Len(ledger) :
       args' = [args EXCEPT !.valid = valid_lines(SubSeq(ledger, 1, read_upto)),
                            !.read = IF read_upto = Len(ledger) THEN "ok" ELSE "error"]
  /\ pc' = "clean_write"
  /\ UNCHANGED <<file_vars, result, run_vars>>

\* the rewrite, src/main.py:232-237: open(log_file, 'w') truncates the file,
\* then the collected lines are written.  The open can fail (file untouched)
\* and a write can fail after written lines of them (src/main.py:238)
CleanWrite ==
  /\ pc = "clean_write"
  /\ \/ /\ ledger' = args.valid
        /\ args' = [args EXCEPT !.write = "ok"]
        /\ pc' = "clean_done"
     \/ /\ ledger' = ledger
        /\ args' = [args EXCEPT !.write = "open_failed"]
        /\ pc' = "clean_restore"
     \/ \E written \in 0..(Len(args.valid) - 1) :
          /\ ledger' = SubSeq(args.valid, 1, written)
          /\ args' = [args EXCEPT !.write = "write_failed"]
          /\ pc' = "clean_restore"
  /\ UNCHANGED <<ledger_exists, backup, result, run_vars>>

\* CleanRestore with the copy of src/main.py:240 lost
CleanRestore_NoCopy ==
  /\ pc = "clean_restore"
  /\ pc' = "clean_done"
  /\ UNCHANGED <<file_vars, args, result, run_vars>>

\* the restore, src/main.py:238-241: shutil.copy2(backup_file, log_file); it
\* is inside the except block, so its own exception leaves the function
CleanRestore ==
  /\ pc = "clean_restore"
  /\ \E copy_raises \in BOOLEAN :
       IF copy_raises
       THEN pc' = "clean_raised" /\ ledger' = ledger
       ELSE pc' = "clean_done" /\ ledger' = backup
  /\ UNCHANGED <<ledger_exists, backup, args, result, run_vars>>

\* clean_log_file is called again on the file it left
CleanAgain ==
  /\ pc = "clean_done"
  /\ args.round < MaxCompactions
  /\ pc' = "clean_backup"
  /\ args' = [fn |-> "clean_log_file", original |-> ledger, valid |-> <<>>,
              round |-> args.round + 1, read |-> "none", write |-> "none"]
  /\ result' = <<[write |-> args.write, ledger |-> ledger]>>
  /\ UNCHANGED <<file_vars, run_vars>>

NextClean ==
  \/ CleanBackup
  \/ CleanRead
  \/ CleanWrite
  \/ CleanRestore
  \/ CleanAgain

SpecClean == InitClean /\ [][NextClean]_vars

\* C12: when compaction has finished and its rewrite met no error, the ledger
\* holds exactly the well-formed records of the original ledger, in order,
\* whatever happened while the original was read; and a compaction that
\* follows a compaction whose rewrite met no error leaves the ledger as it
\* found it
C12_CompactionKeepsWellFormed ==
  (pc = "clean_done" /\ args.write = "ok") =>
    /\ ledger = valid_lines(args.original)
    /\ (args.round > 1 /\ result[1].write = "ok") => ledger = args.original

GK_SAMSUNG == <<49340, 49457, 51204, 51088>>  \* "삼성전자"
GK_HYUNDAI_PRICE == <<54788, 45824, 52264, 32, 51452, 44032>>  \* "현대차 주가"
GK_SAMSUNG_PRICE == <<49340, 49457, 51204, 51088, 32, 51452, 44032>>  \* "삼성전자 주가"
GK_SAMSUNG_SPACED == <<49340, 49457, 32, 51204, 51088>>  \* "삼성 전자"
GK_JEONJA_SAMSUNG == <<51204, 51088, 49340, 49457>>  \* "전자삼성"
GK_PUNCT == <<63, 33>>  \* "?!"

\* the keywords the lists given to group_similar_keywords are made of
GroupKeywords ==
  {GK_SAMSUNG, GK_HYUNDAI_PRICE, GK_SAMSUNG_PRICE, GK_SAMSUNG_SPACED,
   GK_JEONJA_SAMSUNG, GK_PUNCT}

\* the longest list given to group_similar_keywords
MaxKeywords == 3

\* group_similar_keywords(keywords) is about to be called
InitGroup ==
  /\ NoRun
  /\ pc = "fn_call"
  /\ NoFile
  /\ \E keywords \in SeqsUpTo(GroupKeywords, MaxKeywords) :
       args = [fn |-> "group_similar_keywords", keywords |-> keywords]
  /\ result = <<>>

\* the call returns: the groups the loop of src/main.py:344-367 built, in
\* creation order, and the list of representatives (src/main.py:370-380)
CallGroup ==
  /\ pc = "fn_call"
  /\ args.fn = "group_similar_keywords"
  /\ pc' = "fn_return"
  /\ result' = <<[keyword_groups |-> build_groups(<<>>, args.keywords),
                  out |-> group_similar_keywords(args.keywords)]>>
  /\ UNCHANGED <<args, file_vars, run_vars>>

NextGroup == CallGroup

SpecGroup == InitGroup /\ [][NextGroup]_vars

\* the call of group_similar_keywords has returned
GroupReturned == args.fn = "group_similar_keywords" /\ pc = "fn_return"

\* the group (its index) a keyword was put into
group_of(keyword_groups, kw) ==
  CHOOSE g \in 1..Len(keyword_groups) : kw \in Range(keyword_groups[g])

\* how often x occurs in the sequence q
count_in(q, x) == Cardinality({n \in 1..Len(q) : q[n] = x})

\* how often x occurs in the groups
RECURSIVE count_in_groups(_, _)
count_in_groups(keyword_groups, x) ==
  IF keyword_groups = <<>> THEN 0
  ELSE count_in(Head(keyword_groups), x) + count_in_groups(Tail(keyword_groups), x)

\* C14: any two keywords of the input whose normalized forms are not empty
\* and similar (one a substring of the other, or both of length >= 3 with
\* >= 2 distinct characters in common) are in the same group, and not both
\* among the representatives
C14_SimilarPairsGrouped ==
  GroupReturned =>
    \A a, b \in Range(args.keywords) :
      (/\ a # b
       /\ normalize_keyword(a) # <<>>
       /\ normalize_keyword(b) # <<>>
       /\ is_similar(normalize_keyword(a), normalize_keyword(b))) =>
        /\ group_of(result[1].keyword_groups, a) = group_of(result[1].keyword_groups, b)
        /\ ~(a \in Range(result[1].out) /\ b \in Range(result[1].out))

\* C15: the groups partition the input; every member of a group is similar to
\* the group's first member and to the first member of no earlier group; the
\* output has one representative per group, in creation order: the first
\* member of maximal length; the output is a subset of the input and is empty
\* only for the empty input
C15_GroupsPartitionInput ==
  GroupReturned =>
    LET keyword_groups == result[1].keyword_groups
        out == result[1].out
    IN  /\ \A x \in Range(args.keywords) :
             /\ count_in_groups(keyword_groups, x) = count_in(args.keywords, x)
             /\ Cardinality({g \in 1..Len(keyword_groups) :
                               x \in Range(keyword_groups[g])}) = 1
        /\ \A g \in 1..Len(keyword_groups) :
             /\ keyword_groups[g] # <<>>
             /\ Range(keyword_groups[g]) \subseteq Range(args.keywords)
             /\ \A m \in 1..Len(keyword_groups[g]) :
                  /\ is_similar(normalize_keyword(keyword_groups[g][m]),
                                normalize_keyword(keyword_groups[g][1]))
                  /\ \A h \in 1..(g - 1) :
                       ~is_similar(normalize_keyword(keyword_groups[g][m]),
                                   normalize_keyword(keyword_groups[h][1]))
        /\ Len(out) = Len(keyword_groups)
        /\ \A g \in 1..Len(out) :
             \E m \in 1..Len(keyword_groups[g]) :
               /\ out[g] = keyword_groups[g][m]
               /\ \A n \in 1..Len(keyword_groups[g]) :
                    /\ Len(keyword_groups[g][n]) <= Len(out[g])
                    /\ n < m => Len(keyword_groups[g][n]) < Len(out[g])
        /\ Range(out) \subseteq Range(args.keywords)
        /\ (out = <<>>) <=> (args.keywords = <<>>)

\* C15 witness: three keywords fell into two groups, and in one group two
\* members of the same maximal length tied, the earlier one being returned
C15_Witness ==
  /\ GroupReturned
  /\ Len(args.keywords) = 3
  /\ Len(result[1].keyword_groups) = 2
  /\ \E g \in 1..2 :
       LET group == result[1].keyword_groups[g]
       IN  /\ Len(group) = 2
           /\ group[1] # group[2]
           /\ Len(group[1]) = Len(group[2])
           /\ result[1].out[g] = group[1]

(***************************************************************************)
(* determine_target_length applied on its own                              *)
(***************************************************************************)
\* src/main.py:389-391
politics_keywords ==
  << <<45824, 53685, 47161>>,  \* "대통령"
     <<54980, 48372>>,  \* "후보"
     <<51060, 51116, 47749>>,  \* "이재명"
     <<50980, 49437, 50676>>,  \* "윤석열"
     <<51221, 48512>>,  \* "정부"
     <<45824, 49440>>,  \* "대선"
     <<52509, 49440>>,  \* "총선"
     <<49440, 44144>>,  \* "선거"
     <<50980, 49900>>,  \* "윤심"
     <<44397, 48124, 51032, 55192>>,  \* "국민의힘"
     <<45908, 48520, 50612, 48124, 51452, 45817>>,  \* "더불어민주당"
     <<51032, 50896>>,  \* "의원"
     <<45824, 53685, 47161, 49892>>,  \* "대통령실"
     <<52397, 50752, 45824>>,  \* "청와대"
     <<44397, 54924>>,  \* "국회"
     <<44288, 47144, 51452>>,  \* "관련주"
     <<54861, 51456, 54364>>,  \* "홍준표"
     <<45824, 48320, 51064>>,  \* "대변인"
     <<51221, 52824>>,  \* "정치"
     <<51109, 44288>> >>  \* "장관"

\* src/main.py:394-396
financial_keywords ==
  << <<51452, 49885>>,  \* "주식"
     <<53804, 51088>>,  \* "투자"
     <<44552, 50997>>,  \* "금융"
     <<44552, 47532>>,  \* "금리"
     <<51008, 54665>>,  \* "은행"
     <<48176, 45817, 44552>>,  \* "배당금"
     <<53076, 49828, 54588>>,  \* "코스피"
     <<53076, 49828, 45797>>,  \* "코스닥"
     <<52292, 44428>>,  \* "채권"
     <<54144, 46300>>,  \* "펀드"
     <<51088, 49328>>,  \* "자산"
     <<48512, 46041, 49328>>,  \* "부동산"
     <<52397, 45380, 45236, 51068, 51200, 52629>>,  \* "청년내일저축"
     <<54028, 53433, 53685, 51109>>,  \* "파킹통장"
     <<44228, 51340>>,  \* "계좌"
     <<46024, 45208, 47924>>,  \* "돈나무"
     <<51077, 52636, 44552>>,  \* "입출금"
     <<107, 98>>,  \* "kb"
     <<54616, 45208>>,  \* "하나"
     <<49888, 54620>>,  \* "신한"
     <<49340, 49457, 51204, 51088>>,  \* "삼성전자"
     <<51613, 44428>>,  \* "증권"
     <<48372, 54744>> >>  \* "보험"

\* src/main.py:399
quiz_keywords ==
  << <<53300, 51592>>,  \* "퀴즈"
     <<51060, 48292, 53944>>,  \* "이벤트"
     <<51221, 45813>>,  \* "정답"
     <<47582, 52628, 44592>>,  \* "맞추기"
     <<52629, 44396, 53300, 51592>>,  \* "축구퀴즈"
     <<48708, 53944, 48260, 45768>> >>  \* "비트버니"

\* src/main.py:402-403
policy_keywords ==
  << <<51221, 52293>>,  \* "정책"
     <<51648, 50896>>,  \* "지원"
     <<50672, 47568, 51221, 49328>>,  \* "연말정산"
     <<49888, 52397>>,  \* "신청"
     <<49464, 44552>>,  \* "세금"
     <<44277, 51228>>,  \* "공제"
     <<51228, 46020>>,  \* "제도"
     <<51648, 44553, 51068>>,  \* "지급일"
     <<49892, 50629, 44553, 50668>>,  \* "실업급여"
     <<44397, 48124, 50672, 44552>>,  \* "국민연금"
     <<44148, 44053, 48372, 54744>>,  \* "건강보험"
     <<51648, 50896, 44552>>,  \* "지원금"
     <<48373, 51648>> >>  \* "복지"

\* any(word in keyword for word in words)
any_in(words, kw) == \E w \in 1..Len(words) : contains(kw, words[w])

\* determine_target_length with the financial test moved before the politics test
determine_target_length_FinancialFirst(kw) ==
  IF any_in(quiz_keywords, kw) THEN 300
  ELSE IF any_in(policy_keywords, kw) THEN 500
  ELSE IF any_in(financial_keywords, kw) THEN 450
  ELSE IF any_in(politics_keywords, kw) THEN 500
  ELSE 400

\* determine_target_length(keyword), src/main.py:382-423
determine_target_length(kw) ==
  IF any_in(quiz_keywords, kw) THEN 300
  ELSE IF any_in(policy_keywords, kw) THEN 500
  ELSE IF any_in(politics_keywords, kw) THEN 500
  ELSE IF any_in(financial_keywords, kw) THEN 450
  ELSE 400

\* the concatenation of a sequence of strings
RECURSIVE concat(_)
concat(parts) == IF parts = <<>> THEN <<>> ELSE Head(parts) \o concat(Tail(parts))

\* how many pieces a keyword given to a function is put together from
MaxPieces == 3

\* the pieces of the keywords given to determine_target_length: a term of
\* each list, a word of none, a space
LengthPieces ==
  { QUIZ_TERM, KW_YEONMAL, STOCK_TERM, GK_SAMSUNG, <<45216, 50472>>, <<32>> }

\* determine_target_length(keyword) is about to be called
InitLength ==
  /\ NoRun
  /\ NoFile
  /\ pc = "fn_call"
  /\ \E parts \in SeqsUpTo(LengthPieces, MaxPieces) :
       args = [fn |-> "determine_target_length", keyword |-> concat(parts)]
  /\ result = <<>>

\* the call returns target_length
CallLength ==
  /\ pc = "fn_call"
  /\ args.fn = "determine_target_length"
  /\ pc' = "fn_return"
  /\ result' = <<determine_target_length(args.keyword)>>
  /\ UNCHANGED <<args, file_vars, run_vars>>

NextLength == CallLength

SpecLength == InitLength /\ [][NextLength]_vars

RECURSIVE lower_unicode(_)
lower_unicode(s) ==
  IF s = <<>> THEN <<>>
  ELSE (IF Head(s) = 304 THEN <<105, 775>> ELSE lower(<<Head(s)>>))
         \o lower_unicode(Tail(s))

\* the characters the class [가-힣a-z0-9] matches
IsTagChar(c) ==
  \/ (c >= 44032 /\ c <= 55203) \/ (c >= 97 /\ c <= 122) \/ IsDigit(c)

\* _normalize_tag that keeps the spaces inside the tag
normalize_tag_KeepsSpaces(tag) ==
  SelectSeq(lower_unicode(strip(tag)), LAMBDA c : IsTagChar(c) \/ c = 32)

\* _normalize_tag(tag), src/deepseek_client.py:50-56, and the same two
\* statements of generate_tags_from_content, src/llm_client.py:148-150
normalize_tag(tag) == SelectSeq(lower_unicode(strip(tag)), IsTagChar)

\* s.split(','): the pieces between the commas, at least one piece
RECURSIVE split_comma(_)
split_comma(s) ==
  LET p == find_from(s, <<44>>, 1)
  IN  IF p = 0 THEN <<s>>
      ELSE <<SubSeq(s, 1, p - 1)>> \o split_comma(SubSeq(s, p + 1, Len(s)))

\* the loop over raw_tags.split(','), src/llm_client.py:146-154
RECURSIVE collect_tags(_)
collect_tags(pieces) ==
  IF pieces = <<>> THEN <<>>
  ELSE LET normalized_tag == remove_spaces(normalize_tag(Head(pieces)))
       IN  (IF normalized_tag # <<>> THEN <<normalized_tag>> ELSE <<>>)
             \o collect_tags(Tail(pieces))

\* generate_tags_from_content, src/llm_client.py:112-163, as a function of
\* what the API call did: a response with content, an empty or invalid
\* response, an exception
generate_tags_from_content(response) ==
  IF response.status = "ok"
  THEN collect_tags(split_comma(strip(response.content)))
  ELSE <<>>

\* how long a raw tag text given to a function is
MaxTagLen == 4

\* the characters of the raw tag texts: "A", "b", "1", the space, the comma,
\* the hyphen, "가", U+0130
TagChars == {65, 98, 49, 32, 44, 45, 44032, 304}

\* what the API call of generate_tags_from_content can come back with
TagResponses ==
  {[status |-> "ok", content |-> c] : c \in SeqsUpTo(TagChars, MaxTagLen)}
    \cup {[status |-> "invalid", content |-> <<>>],
          [status |-> "raises", content |-> <<>>]}

\* one of the two functions is about to be called
InitTag ==
  /\ NoRun
  /\ NoFile
  /\ pc = "fn_call"
  /\ \/ \E tag \in SeqsUpTo(TagChars, MaxTagLen) :
          args = [fn |-> "_normalize_tag", tag |-> tag]
     \/ \E response \in TagResponses :
          args = [fn |-> "generate_tags_from_content", response |-> response]
  /\ result = <<>>

\* _normalize_tag returns
CallNormalizeTag ==
  /\ pc = "fn_call"
  /\ args.fn = "_normalize_tag"
  /\ pc' = "fn_return"
  /\ result' = <<normalize_tag(args.tag)>>
  /\ UNCHANGED <<args, file_vars, run_vars>>

\* generate_tags_from_content returns
CallGenerateTags ==
  /\ pc = "fn_call"
  /\ args.fn = "generate_tags_from_content"
  /\ pc' = "fn_return"
  /\ result' = <<generate_tags_from_content(args.response)>>
  /\ UNCHANGED <<args, file_vars, run_vars>>

NextTag == CallNormalizeTag \/ CallGenerateTags

SpecTag == InitTag /\ [][NextTag]_vars

\* a string of Korean syllables, ASCII lower-case letters and digits only
TagCharsOnly(s) == \A n \in 1..Len(s) : IsTagChar(s[n])

\* C17: the output of normalizeTag holds only Korean syllables, a-z and 0-9
\* and normalizing it again gives it back; every tag returned by tag
\* generation is non-empty, holds only such characters and is unchanged by
\* normalizeTag
C17_NormalizeTagIdempotent ==
  /\ (args.fn = "_normalize_tag" /\ pc = "fn_return") =>
       /\ TagCharsOnly(result[1])
       /\ normalize_tag(result[1]) = result[1]
  /\ (args.fn = "generate_tags_from_content" /\ pc = "fn_return") =>
       \A n \in 1..Len(result[1]) :
         /\ result[1][n] # <<>>
         /\ TagCharsOnly(result[1][n])
         /\ normalize_tag(result[1][n]) = result[1][n]

\* C17 witness: a text with an upper-case letter, a space inside and a Korean
\* syllable was normalized to something else that is not empty
C17_Witness ==
  /\ args.fn = "_normalize_tag"
  /\ pc = "fn_return"
  /\ \E n \in 2..(Len(args.tag) - 1) : args.tag[n] = 32
  /\ \E n \in 1..Len(args.tag) : args.tag[n] = 65
  /\ \E n \in 1..Len(args.tag) : args.tag[n] = 44032
  /\ Len(result[1]) = 2

\* C18: when tag generation returned no tag, publish is called with exactly
\* one tag, the keyword as normalizeTag sanitizes it; otherwise with the
\* generated tags
C18_FallbackTagNormalized ==
  pc = "publish" =>
    \E generated_tags \in TagResults :
      tags_to_use = IF generated_tags = <<>>
                    THEN <<normalize_tag(keyword)>>
                    ELSE generated_tags

(***************************************************************************)
(* process_and_deduplicate_keywords applied to one raw keyword             *)
(***************************************************************************)
\* the pieces of the raw keywords: the quiz marker, a date token with a
\* space, a date token without one, a word, a space
DatePieces ==
  { QUIZ_TERM,
    <<51, 50900, 32, 49, 51068>>,  \* "3월 1일"
    <<49, 50, 50900, 50, 53, 51068>>,  \* "12월25일"
    <<54665, 49324>>,  \* "행사"
    <<32>> }

\* process_and_deduplicate_keywords([keyword], today) is about to be called
InitDate ==
  /\ NoRun
  /\ NoFile
  /\ pc = "fn_call"
  /\ \E parts \in SeqsUpTo(DatePieces, MaxPieces), d \in Range(Days) :
       args = [fn |-> "process_and_deduplicate_keywords",
               raw_keywords |-> <<concat(parts)>>, today |-> d]
  /\ result = <<>>

\* the call returns unique_processed_keywords
CallDate ==
  /\ pc = "fn_call"
  /\ args.fn = "process_and_deduplicate_keywords"
  /\ pc' = "fn_return"
  /\ result' = <<process_and_deduplicate_keywords(args.raw_keywords, args.today)>>
  /\ UNCHANGED <<args, file_vars, run_vars>>

NextDate == CallDate

SpecDate == InitDate /\ [][NextDate]_vars

\* the call on one raw keyword has returned
DateReturned == args.fn = "process_and_deduplicate_keywords" /\ pc = "fn_return"

\* the date tokens of s, as DATE_REGEX.finditer(s) yields them
RECURSIVE date_tokens(_)
date_tokens(s) ==
  LET n == date_search(s)
  IN  IF n = 0 THEN <<>>
      ELSE <<SubSeq(s, n, n + date_match_len(s, n) - 1)>>
             \o date_tokens(SubSeq(s, n + date_match_len(s, n), Len(s)))

\* C19: a keyword with a date token (and no space at its ends) comes back with
\* every date token replaced by today's "<M>월 <D>일" and every other
\* character unchanged, and holds no date token other than today's
C19_EveryDateTokenReplaced ==
  DateReturned =>
    LET kw == args.raw_keywords[1]
        md == today_date_str_md(args.today)
    IN  (date_search(kw) > 0 /\ strip(kw) = kw) =>
          /\ result[1] = <<date_sub(kw, md)>>
          /\ \A n \in 1..Len(date_tokens(result[1][1])) :
               date_tokens(result[1][1])[n] = md

\* C20: a keyword with no date token comes back followed by one space and
\* today's "<M>월 <D>일" when it contains the quiz marker, unchanged
\* otherwise; every returned keyword with the quiz marker contains today's
\* date token
C20_QuizGetsTodaysDate ==
  DateReturned =>
    LET kw == args.raw_keywords[1]
        md == today_date_str_md(args.today)
    IN  /\ date_search(kw) = 0 =>
             result[1] = <<IF contains(kw, QUIZ_TERM) THEN kw \o <<32>> \o md ELSE kw>>
        /\ \A n \in 1..Len(result[1]) :
             contains(result[1][n], QUIZ_TERM) => contains(result[1][n], md)

\* C20 witness: a quiz keyword without a date token came back with today's
\* date appended
C20_Witness ==
  /\ DateReturned
  /\ date_search(args.raw_keywords[1]) = 0
  /\ contains(args.raw_keywords[1], QUIZ_TERM)
  /\ Len(args.raw_keywords[1]) > Len(QUIZ_TERM)
  /\ Len(result[1][1]) = Len(args.raw_keywords[1]) + 1 + Len(today_date_str_md(args.today))

(***************************************************************************)
(* Properties of the pipeline and of the loop within a run                 *)
(***************************************************************************)
\* kw contains one of the blocklisted substrings of src/main.py:40-44
HasBlocklisted(kw) == \E f \in 1..Len(FILTER_KEYWORDS) : contains(kw, FILTER_KEYWORDS[f])

\* the pipeline of src/main.py:506-565 has just produced the work list
JustScraped ==
  \/ pc = "check" /\ i = 1
  \/ pc = "finally" /\ exit_path = "no_keywords"

\* C21: no keyword given to content generation or to publish contains a
\* blocklisted substring, and every candidate without one that the annual
\* pre-filter let through is, after date normalization, among the keywords
\* the blocklist step hands on
C21_BlocklistFilter ==
  /\ \A k \in content_calls \cup publish_calls : ~HasBlocklisted(k)
  /\ \A n \in 1..Len(processed_keywords) : ~HasBlocklisted(processed_keywords[n])
  /\ JustScraped =>
       LET candidates == annual_prefilter(raw_keywords, loaded_annual)
           handed_on  == process_and_deduplicate_keywords(candidates, today)
       IN  /\ \A n \in 1..Len(candidates) :
                ~HasBlocklisted(candidates[n])
                  => process_keyword(candidates[n], today) \in Range(handed_on)
           /\ Len(handed_on) =
                Cardinality({process_keyword(candidates[n], today) :
                               n \in {m \in 1..Len(candidates) :
                                        ~HasBlocklisted(candidates[m])}})

\* C21 witness: the scrape returned a candidate with a blocklisted term and
\* one without; the one without went through content generation and publish
C21_Witness ==
  /\ \E n \in 1..Len(raw_keywords) : HasBlocklisted(raw_keywords[n])
  /\ \E n \in 1..Len(raw_keywords) :
       /\ ~HasBlocklisted(raw_keywords[n])
       /\ raw_keywords[n] \in publish_calls

(***************************************************************************)
(* The pipeline of src/main.py:506-565 applied on its own                  *)
(***************************************************************************)
KW_HEALTH_DATED == <<44148, 44053, 48372, 54744, 32, 51, 50900, 32, 49, 51068>>  \* "건강보험 3월 1일"

\* the candidates the pipeline is given: two annual-topic ones, two others,
\* and one similar to two of them
WorkKeywords == {KW_YEONMAL, KW_HEALTH_DATED, KW_SAMSUNG, KW_WEATHER, KW_YEONMAL_STOCK}

\* the days the pipeline runs on: those of Days, the last day of February and
\* the first of March
WorkDays ==
  Range(Days) \cup {[y |-> 2025, m |-> 2, d |-> 28], [y |-> 2025, m |-> 3, d |-> 1]}

\* s back to front
Reverse(s) == [n \in 1..Len(s) |-> s[Len(s) + 1 - n]]

\* other lists of the same candidate strings: another order, every candidate
\* twice, each candidate once in sorted order
SameCandidates(raw) == {Reverse(raw), raw \o raw, sorted(Range(raw))}

\* the pipeline is about to run on raw_keywords, and again on another list of
\* the same candidate strings
InitWork ==
  /\ NoRun
  /\ NoFile
  /\ pc = "fn_call"
  /\ \E raw \in SeqsUpTo(WorkKeywords, MaxKeywords), d \in WorkDays,
        annual \in {{}, {KW_YEONMAL}} :
       \E other \in SameCandidates(raw) :
         args = [fn |-> "work_list", raw_keywords |-> raw, other_raw_keywords |-> other,
                 today |-> d, annual_posted_this_year |-> annual]
  /\ result = <<>>

\* src/main.py:506-565 with the list after grouping (line 524) and the list
\* after the seasonal reorder (line 536) kept, and the work list of the other
\* candidate list
CallWork ==
  /\ pc = "fn_call"
  /\ args.fn = "work_list"
  /\ pc' = "fn_return"
  /\ LET grouped ==
           group_similar_keywords(
             process_and_deduplicate_keywords(
               annual_prefilter(args.raw_keywords, args.annual_posted_this_year),
               args.today))
     IN  result' =
           <<[grouped     |-> grouped,
              prioritized |-> prioritize_annual(grouped, args.today.m <= 2),
              final       |-> work_list(args.raw_keywords, args.today,
                                        args.annual_posted_this_year),
              other_final |-> work_list(args.other_raw_keywords, args.today,
                                        args.annual_posted_this_year)]>>
  /\ UNCHANGED <<args, file_vars, run_vars>>

NextWork == CallWork

SpecWork == InitWork /\ [][NextWork]_vars

\* the pipeline has returned
WorkReturned == args.fn = "work_list" /\ pc = "fn_return"

\* the position of k in the list s of distinct strings
index_in(s, k) == CHOOSE n \in 1..Len(s) : s[n] = k

\* C22: in January and February the list after the seasonal step holds the
\* keywords of the grouped list, none added or lost, the annual-topic ones
\* first, and two keywords of the same kind in the order they had before; in
\* any other month the list is unchanged
C22_SeasonalStablePartition ==
  WorkReturned =>
    LET g == result[1].grouped
        p == result[1].prioritized
    IN  IF args.today.m \in {1, 2}
        THEN /\ Len(p) = Len(g)
             /\ Range(p) = Range(g)
             /\ \A x, y \in 1..Len(p) :
                  x < y =>
                    /\ is_annual_keyword(p[y]) => is_annual_keyword(p[x])
                    /\ (is_annual_keyword(p[x]) <=> is_annual_keyword(p[y]))
                         => index_in(g, p[x]) < index_in(g, p[y])
        ELSE p = g

\* C22 witness: in February a grouped list of two annual-topic keywords with
\* another keyword between them was reordered
C22_Witness ==
  /\ WorkReturned
  /\ args.today.m = 2
  /\ Len(result[1].grouped) = 3
  /\ is_annual_keyword(result[1].grouped[1])
  /\ ~is_annual_keyword(result[1].grouped[2])
  /\ is_annual_keyword(result[1].grouped[3])
  /\ result[1].prioritized # result[1].grouped

\* C28: the work list holds no string twice and no more entries than there
\* are distinct candidates, and another list of the same candidate strings
\* (other order, duplicates) gives the same work list in the same order
C28_WorkListOfCandidateSet ==
  WorkReturned =>
    /\ \A x, y \in 1..Len(result[1].final) :
         result[1].final[x] = result[1].final[y] => x = y
    /\ Len(result[1].final) <= Cardinality(Range(args.raw_keywords))
    /\ Range(args.other_raw_keywords) = Range(args.raw_keywords)
         => result[1].other_final = result[1].final

\* C28 witness: a list holding one candidate twice and a list of the same
\* candidates in another order gave the same work list of two keywords
C28_Witness ==
  /\ WorkReturned
  /\ Len(args.raw_keywords) = 3
  /\ Cardinality(Range(args.raw_keywords)) = 2
  /\ args.other_raw_keywords = Reverse(args.raw_keywords)
  /\ args.other_raw_keywords # args.raw_keywords
  /\ Len(result[1].final) = 2
  /\ result[1].other_final = result[1].final

\* C23: no annual-topic keyword that equals a keyword of this year's
\* posted-annual set, contains one, or is contained in one, is given to
\* content generation or to publish
C23_PostedAnnualDropped ==
  \A k \in content_calls \cup publish_calls :
    is_annual_keyword(k) =>
      \A a \in loaded_annual : k # a /\ ~contains(k, a) /\ ~contains(a, k)

(***************************************************************************)
(* The keyword loop with interrupts, and its finally block always reached  *)
(***************************************************************************)
NextInterrupt ==
  \/ SkipPosted
  \/ BeginKeyword
  \/ ContentOk
  \/ ContentNone
  \/ ContentRaises
  \/ GenerateTags
  \/ PublishOk
  \/ PublishFail
  \/ LogAttempt
  \/ Delay
  \/ Interrupt
  \/ Finally

\* the finally block of src/main.py:651 runs once control has left the try
\* block: nothing before line 655 waits for anything
SpecInterrupt == InitLoop /\ [][NextInterrupt]_vars /\ WF_vars(Finally)

\* C24: once a KeyboardInterrupt has arrived in the loop, control is in the
\* finally block or behind it, no keyword behind the current one was or is
\* given to content generation or publish, no further publish happens, and
\* the finally block gets executed and calls quit on the browser session
C24_InterruptStopsLoop ==
  /\ [](exit_path = "interrupt" =>
          /\ pc \in {"finally", "idle"}
          /\ \A j \in (i + 1)..Len(processed_keywords) :
               processed_keywords[j] \notin content_calls \cup publish_calls)
  /\ [][exit_path = "interrupt" =>
          publish_calls' = publish_calls /\ published' = published /\ ledger' = ledger]_vars
  /\ (exit_path = "interrupt" /\ pc = "finally") ~> (pc = "idle" /\ quit_calls = 1)

\* C24 witness: a run interrupted after a successful publish, with keywords
\* left in the work list, has ended with the session's quit called
C24_Witness ==
  /\ pc = "idle"
  /\ exit_path = "interrupt"
  /\ published # {}
  /\ i < Len(processed_keywords)
  /\ quit_calls = 1

\* C25: every run, on every exit path (missing credentials, login failure,
\* scrape failure or interrupt during scraping, exception or interrupt in the
\* loop, normal end), has reported the final count of keywords considered and
\* of keywords posted when it ends.  The message of src/main.py:659 is the
\* only one that carries the counts
C25_FinalCountsReported == RunEnded => final_report = "counts"

\* the keywords whose publish returned failure
publish_failed == publish_calls \ published

\* C26: when content generation returns a failure for a keyword, no publish
\* happens for it; when publish returns failure for it, no ledger append and
\* no in-memory set update happens for it; and in both cases the loop goes on:
\* every keyword before the current one was either skipped as already posted
\* or given to content generation, and the keyword at which a run left the
\* loop early is never one whose content generation or publish returned failure
C26_FailureSkipsOneKeyword ==
  /\ \A k \in content_failed : k \in content_calls /\ k \notin publish_calls
  /\ \A k \in publish_failed :
       /\ k \notin Range(appended)
       /\ k \notin log_returned
       /\ k \in posted_today_set => k \in loaded_today
       /\ k \in annual_posted_this_year => k \in loaded_annual
  /\ \A j \in 1..(i - 1) :
       \/ processed_keywords[j] \in content_calls
       \/ skips(processed_keywords[j], posted_today_set, annual_posted_this_year)
  /\ (pc \in {"finally", "idle"} /\ i <= Len(processed_keywords)) =>
       /\ exit_path \in {"content_raised", "log_raised"}
       /\ keyword \notin content_failed \cup publish_failed
  /\ exit_path = "loop_done" => i = Len(processed_keywords) + 1

\* C26 witness: a run went through its whole work list although the content
\* generation of one keyword and the publish of another had returned failure,
\* and a keyword behind both was published and recorded
C26_Witness ==
  /\ pc = "idle"
  /\ exit_path = "loop_done"
  /\ \E a, b, c \in 1..Len(processed_keywords) :
       /\ a < c /\ b < c
       /\ processed_keywords[a] \in content_failed
       /\ processed_keywords[b] \in publish_failed
       /\ processed_keywords[c] \in log_returned
       /\ processed_keywords[c] \in posted_today_set \ loaded_today

\* the scrape of this run failed: a timeout or an exception
ScrapeFailed == scrape_outcome \in {"timeout", "raised"}

\* C27: a failure of the scrape (exception or timeout) yields an empty
\* candidate list; the run has zero work, makes no content-generation and no
\* publish call, appends nothing to the ledger, and ends through the finally
\* block like a run that found no keywords, with the browser closed, not
\* through an exception handler
C27_ScrapeFailureIsEmptyList ==
  ScrapeFailed =>
    /\ raw_keywords = <<>>
    /\ processed_keywords = <<>>
    /\ content_calls = {} /\ publish_calls = {} /\ published = {}
    /\ appended = <<>>
    /\ ledger = ledger_loaded
    /\ pc \in {"finally", "idle"}
    /\ exit_path = "no_keywords"
    /\ pc = "idle" => final_report = "no_keywords" /\ quit_calls = 1

\* C27 witness: a run whose scrape raised has ended, the ledger it found
\* holding records
C27_Witness ==
  /\ RunEnded
  /\ scrape_outcome = "raised"
  /\ scrape_calls = 1
  /\ ledger_loaded # <<>>
  /\ quit_calls = 1

\* C29: the once-per-year limit holds for annual-topic candidates that carry
\* a date token: when the ledger the run loaded holds the record that the
\* publish of such a candidate left on an earlier day of this year, the
\* candidate scraped again today is not published again
C29_DatedAnnualOncePerYear ==
  \A n \in 1..Len(raw_keywords) :
    LET r == raw_keywords[n]
    IN  (/\ is_annual_keyword(r)
         /\ date_search(r) # 0
         /\ \E e \in 1..(today_ix - 1) :
              /\ Days[e].y = today.y
              /\ ledger_line(today_kst_str(Days[e]), process_keyword(r, Days[e]))
                   \in Range(ledger_loaded))
        => process_keyword(r, today) \notin published

\* the strings the two pairs of sets are asked about: the keywords of the
\* work list, and the same with their whitespace normalised
agreement_queries ==
  Range(processed_keywords) \cup {join_split(processed_keywords[n]) :
                                    n \in 1..Len(processed_keywords)}

====
